---- MODULE Spec2Model ----
(***************************************************************************)
(* A model of the page archivers of this repository:                       *)
(*   src/claude_saver.py         UniversalArchiver (the archival pipeline)  *)
(*   src/epub_pdf_downloader.py  EnhancedArchiver  (page to PDF)            *)
(*   src/tweet_archiver.py       download_tweet                             *)
(* One behaviour is one call of an entry point on a freshly constructed    *)
(* object; prog says which.  prog = "fetcher" drives download_resource of  *)
(* a set-up UniversalArchiver directly, with any sequence of URLs;         *)
(* prog = "namer" makes the output names of successive runs, calling       *)
(* create_directory and create_output_path as the clock advances;         *)
(* prog = "placer" computes the destination paths of the media loop for    *)
(* references with dot segments, query strings and fragments.              *)
(***************************************************************************)
EXTENDS Integers, Sequences, FiniteSets, TLC

\* ------------------------------------------------------------------ bounds
\* Direct calls of download_resource made by the "fetcher" caller.
MaxCalls == 3
\* Entries of the style snapshot's 'stylesheets' list.
MaxSheets == 1
\* Entries of the style snapshot's 'inline_styles' list.
MaxInline == 1
\* Media elements (video + img) found on a tweet page.
MaxMedia == 2
\* Runs whose output name the "namer" caller has made.
MaxRuns == 3
\* Seconds the clock advances while the "namer" caller makes names.
MaxClock == 1

\* ------------------------------------------------------- program constants
\* retries = 3 in download_resource.
retries == 3

\* -------------------------------------------------------------------- URLs
\* An absolute URL is [host, path]; path is the sequence of its segments.
BaseURL == [host |-> "ex.com", path |-> <<"dir", "p">>]

\* Raw references as they stand in attributes and computed styles.
RawAbsA  == [kind |-> "abs",  host |-> "ex.com",  path |-> <<"img", "a.jpg">>]
RawRootA == [kind |-> "root", host |-> "",        path |-> <<"img", "a.jpg">>]
RawRelB  == [kind |-> "rel",  host |-> "",        path |-> <<"..", "b.png">>]
RawData  == [kind |-> "data", host |-> "",        path |-> <<>>]
RawRefs  == {RawAbsA, RawRootA, RawRelB, RawData}

\* The directory part of a path: everything up to the last segment.
DirOf(p) == IF Len(p) = 0 THEN <<>> ELSE SubSeq(p, 1, Len(p) - 1)

\* RFC 3986 remove_dot_segments on a segment list, as urljoin applies it to a
\* relative reference merged with the base path.
RECURSIVE RemoveDots(_, _)
RemoveDots(todo, acc) ==
    IF Len(todo) = 0 THEN acc
    ELSE IF Head(todo) = ".."
         THEN RemoveDots(Tail(todo), DirOf(acc))
         ELSE RemoveDots(Tail(todo), Append(acc, Head(todo)))

\* urllib.parse.urljoin(base, raw).
urljoin(base, raw) ==
    CASE raw.kind = "abs"  -> [host |-> raw.host, path |-> raw.path]
      [] raw.kind = "root" -> [host |-> base.host, path |-> RemoveDots(raw.path, <<>>)]
      [] OTHER             -> [host |-> base.host,
                               path |-> RemoveDots(DirOf(base.path) \o raw.path, <<>>)]

\* extract_media_urls, "Clean and resolve URLs": data: URIs are dropped, the
\* rest are joined with the base URL and collected in a set.
ResolvedUrls(raws, base) ==
    {urljoin(base, r) : r \in {x \in raws : x.kind # "data"}}

\* Every URL a page of the model can refer to.
PageURLs == ResolvedUrls(RawRefs, BaseURL)

\* The src attributes a tweet page can hold: a video on video.twimg.com, two
\* images, and None (get_attribute of an element without src).
TwVideo == [host |-> "video.twimg.com", path |-> <<"v.mp4">>]
TwVideoB == [host |-> "video.twimg.com", path |-> <<"w.mp4">>]
TwImgA == [host |-> "pbs.twimg.com", path |-> <<"media", "a.jpg">>]
TwImgB == [host |-> "pbs.twimg.com", path |-> <<"media", "b.jpg">>]
TwNone == [host |-> "", path |-> <<>>]
TweetURLs == {TwVideo, TwVideoB, TwImgA, TwImgB}

\* The text of a stylesheet is the sequence of its rules; a rule holds at most
\* one url().  The references of the two rules
\*   @font-face { src: url(a.woff) }     .x { background: url(b.png) }
RawFont == [kind |-> "rel", host |-> "", path |-> <<"a.woff">>]
RawBg   == [kind |-> "rel", host |-> "", path |-> <<"b.png">>]
FontFaceRule == [type |-> "font-face", name |-> "src", ref |-> RawFont]
StyleRule == [type |-> "style", name |-> "background", ref |-> RawBg]
\* A rule the parser cannot make sense of.
BadRule == [type |-> "malformed", name |-> "", ref |-> RawData]
CssTexts == {<<>>, <<FontFaceRule, StyleRule>>, <<FontFaceRule, BadRule, StyleRule>>}

\* The href of an external stylesheet, the base of the url()s in its text.
SheetURL == [host |-> "ex.com", path |-> <<"css", "s.css">>]

\* Every URL a url() of a stylesheet can resolve to.
CssURLs == ResolvedUrls({RawFont, RawBg}, BaseURL)
               \cup ResolvedUrls({RawFont, RawBg}, SheetURL)

AllURLs == PageURLs \cup TweetURLs \cup CssURLs

\* file_path = base_dir / 'media' / netloc / path.lstrip('/')
MediaPath(u) == <<"media", u.host>> \o u.path

\* Mutant of Backoff: the same sleep before every retry.
BackoffConstant(a) == 1

\* 2 ** attempt, the sleep before the next attempt.
Backoff(a) == 2 ^ a

\* ------------------------------------------------------------- sequences
RECURSIVE SeqsOf(_)
\* Every ordering of a finite set: the orders a for loop may visit a set in.
SeqsOf(S) ==
    IF S = {} THEN {<<>>}
    ELSE UNION {{<<x>> \o s : s \in SeqsOf(S \ {x})} : x \in S}

Range(s) == {s[i] : i \in DOMAIN s}

IsPrefix(s, t) == Len(s) <= Len(t) /\ SubSeq(t, 1, Len(s)) = s

StrictlyIncreasing(s) == \A i \in 1..(Len(s) - 1) : s[i] < s[i + 1]

\* A file map with path p set to state v.
Put(f, p, v) == [x \in (DOMAIN f) \cup {p} |-> IF x = p THEN v ELSE f[x]]


\* ------------------------------------------------------------------- state
VARIABLES
    prog,       \* the entry point this behaviour runs
    pc,         \* position in that entry point
    error,      \* the exception propagating, "none" when there is none
    result,     \* "running", then "returned" or "raised"
    done,       \* the pipeline steps completed so far, in order
    absorbed,   \* the steps whose internal error was logged and swallowed
    playwright, \* self.playwright: "unset" (no attribute), "open", "closed"
    browser,    \* self.browser: "none", "open", "closed"
    session,    \* self.session: "none", "open", "closed"
    page,       \* self.page: "none", "open", "closed"
    driver,     \* download_tweet's driver: "none", "open", "closed"
    pageRefs,   \* the raw references the rendered page holds
    media_urls, \* archive_webpage's media_urls (the resolved set)
    queue,      \* what is left of the loop over the media URLs
    downloaded_resources, \* self.downloaded_resources
    files,      \* the files on disk: path -> "partial" or "complete"
    cur,        \* download_resource's url argument (current or last call)
    output_path, \* download_resource's output_path argument
    attempt,    \* download_resource's loop variable
    callGets,   \* HTTP requests issued by the current or last call
    delays,     \* the sleeps of the current or last call, in order
    callState,  \* "none", "active", "skipped", "ok", "failed"
    calls,      \* direct calls made by the "fetcher" caller
    httpCount,  \* per URL, the HTTP requests issued in this behaviour
    seqStarted, \* per URL, the attempt sequences started in this behaviour
    fetchOutcome, \* per URL: "none", "success", or "failed" (retries exhausted)
    refetched,  \* <<url, outcome>>: a request was issued to url when it had that outcome
    styles,     \* archive_webpage's styles: state "unset", "None" or "dict"
    mi,         \* the loop index inside modify_html_content
    modified,   \* modified_content: "unset", "content" (fallback) or "soup"
    links,      \* the stylesheet links of the document modify_html_content returns
    writeFailed, \* the output files whose write raised
    media_files, \* download_tweet's media_files
    font_files, \* self.font_files
    css_files,  \* self.css_files
    clock,      \* datetime.now(), in whole seconds
    runs,       \* the output names made so far, one record per run
    found,      \* the raw references extract_media_urls held when it ended
    sheetFetch, \* the last stylesheet fetch: requests issued and how it ended
    cancelled,  \* the task running archive_webpage has been cancelled
    elements,   \* the number of elements of the document page.content() gave
    markers,    \* the data-style attributes of the soup's elements, in document order
    placed      \* the destinations the "placer" caller has computed, per URL

handles  == <<playwright, browser, session, page, driver>>
fetchVars == <<downloaded_resources, cur, output_path, attempt, callGets, delays, callState,
               calls, httpCount, seqStarted, fetchOutcome, refetched>>
loopVars == <<media_urls, queue>>
rewriteVars == <<styles, mi, modified, links, writeFailed>>
cssVars == <<font_files, css_files>>
nameVars == <<clock, runs>>
ghostVars == <<found, sheetFetch, cancelled>>
docVars == <<elements, markers>>
vars == <<prog, pc, error, result, done, absorbed, handles, pageRefs, loopVars,
          files, fetchVars, rewriteVars, media_files, cssVars, nameVars,
          ghostVars, docVars, placed>>

Progs == {"universal", "fetcher", "enhanced", "tweet", "namer", "placer"}

\* The object after __init__ (claude_saver.py 22-30, epub_pdf_downloader.py
\* 15-20): the handles are None, self.playwright is not yet an attribute.
\* The "fetcher" caller starts from an archiver whose setup() has completed.
Init ==
    /\ prog \in Progs
    /\ pc = CASE prog = "fetcher" -> "idle"
              [] prog = "namer"   -> "naming"
              [] prog = "placer"  -> "placing"
              [] prog = "tweet"   -> "tw_chrome"
              [] OTHER            -> "setup_playwright"
    /\ error = "none"
    /\ result = "running"
    /\ done = <<>>
    /\ absorbed = {}
    /\ playwright = IF prog = "fetcher" THEN "open" ELSE "unset"
    /\ browser = IF prog = "fetcher" THEN "open" ELSE "none"
    /\ session = IF prog = "fetcher" THEN "open" ELSE "none"
    /\ page = "none"
    /\ driver = "none"
    /\ pageRefs \in IF prog = "universal" THEN SUBSET RawRefs ELSE {{}}
    /\ media_urls = {}
    /\ queue = <<>>
    /\ downloaded_resources = {}
    /\ files = <<>>
    /\ cur = BaseURL
    /\ output_path = <<>>
    /\ attempt = 0
    /\ callGets = 0
    /\ delays = <<>>
    /\ callState = "none"
    /\ calls = 0
    /\ httpCount = [u \in AllURLs |-> 0]
    /\ seqStarted = [u \in AllURLs |-> 0]
    /\ fetchOutcome = [u \in AllURLs |-> "none"]
    /\ refetched = {}
    /\ styles = [state |-> "unset", stylesheets |-> <<>>, inline |-> 0,
                 css |-> <<>>, computed |-> {}]
    /\ mi = 0
    /\ modified = "unset"
    /\ links = {}
    /\ writeFailed = {}
    /\ media_files = <<>>
    /\ font_files = {}
    /\ css_files = {}
    /\ clock = 0
    /\ runs = <<>>
    /\ found = {}
    /\ sheetFetch = [gets |-> 0, outcome |-> "none"]
    /\ cancelled = FALSE
    /\ elements = 0
    /\ markers = <<>>
    /\ placed = {}

\* ------------------------------------------------------ try / except / finally
\* Where the finally block of the running entry point begins.
FinallyEntry ==
    CASE prog = "universal" -> "page_close"
      [] prog = "enhanced"  -> "cleanup_session"
      [] OTHER              -> "driver_quit"

\* A step of the try body completes and control moves on.
Ok(step, next) ==
    /\ pc' = next
    /\ done' = Append(done, step)
    /\ UNCHANGED <<error, result>>

\* A step of the try body raises: except logs and re-raises, finally runs.
Raise(step) ==
    /\ pc' = FinallyEntry
    /\ error' = step
    /\ UNCHANGED <<done, result>>

\* Control leaves the entry point with exception err pending ("none": none).
Leave(err) ==
    /\ pc' = "done"
    /\ error' = err
    /\ result' = IF err = "none" THEN "returned" ELSE "raised"
    /\ done' = done

\* ------------------------------------------------------------------ setup
\* self.playwright = await pw.async_playwright().start()
SetupPlaywright ==
    /\ pc = "setup_playwright"
    /\ \/ Ok("setup_playwright", "setup_browser") /\ playwright' = "open"
       \/ Raise("setup") /\ UNCHANGED playwright
    /\ UNCHANGED <<prog, placed, docVars, cssVars, nameVars, ghostVars,
                   absorbed, browser, session, page, driver, pageRefs, loopVars,
                   files, fetchVars, rewriteVars, media_files>>

\* self.browser = await self.playwright.chromium.launch(...)
SetupBrowser ==
    /\ pc = "setup_browser"
    /\ \/ Ok("setup_browser", "setup_context") /\ browser' = "open"
       \/ Raise("setup") /\ UNCHANGED browser
    /\ UNCHANGED <<prog, placed, docVars, cssVars, nameVars, ghostVars,
                   absorbed, playwright, session, page, driver, pageRefs,
                   loopVars, files, fetchVars, rewriteVars, media_files>>

\* self.context = await self.browser.new_context(...)
SetupContext ==
    /\ pc = "setup_context"
    /\ \/ Ok("setup_context", "setup_session")
       \/ Raise("setup")
    /\ UNCHANGED <<prog, placed, docVars, cssVars, nameVars, ghostVars,
                   absorbed, handles, pageRefs, loopVars, files, fetchVars,
                   rewriteVars, media_files>>

\* self.session = aiohttp.ClientSession(...); setup returns.
SetupSession ==
    /\ pc = "setup_session"
    /\ \/ /\ Ok("setup_session",
                IF prog = "universal" THEN "create_directory" ELSE "e_output_path")
          /\ session' = "open"
       \/ Raise("setup") /\ UNCHANGED session
    /\ UNCHANGED <<prog, placed, docVars, cssVars, nameVars, ghostVars,
                   absorbed, playwright, browser, page, driver, pageRefs,
                   loopVars, files, fetchVars, rewriteVars, media_files>>

\* ------------------------------------------------------------ output names
\* Another page of the domain of BaseURL.
OtherURL == [host |-> "ex.com", path |-> <<"q">>]
RunURLs == {BaseURL, OtherURL}

\* hashlib.md5(url.encode()).hexdigest()[:8].  The digest is written as the
\* URL it was computed from: equal for equal URLs, and distinct for the
\* distinct URLs of the model (no two of them collide in 8 hex digits).
md5_8(u) == <<u.host>> \o u.path

\* datetime.now().strftime("%Y%m%d_%H%M%S") at time now: one string per second.
Timestamp(now) == ToString(now)

\* create_directory: the name "{domain}_{hash_str}_{timestamp}".
create_directory(u, now) ==
    [prefix |-> "", domain |-> u.host, hash_str |-> md5_8(u),
     timestamp |-> Timestamp(now), suffix |-> ""]

\* create_output_path: the name "book_{domain}_{timestamp}.pdf"; hash_str is
\* computed and not used.
create_output_path(u, now) ==
    [prefix |-> "book", domain |-> u.host, hash_str |-> <<>>,
     timestamp |-> Timestamp(now), suffix |-> ".pdf"]

\* The output names archiver a has made so far (under a common output_dir).
NamesOf(a) == {runs[i].name : i \in {j \in DOMAIN runs : runs[j].archiver = a}}

\* A run of archiver a for URL u takes name n: dir_path.mkdir(parents=True,
\* exist_ok=True) accepts a directory that is already there, and page.pdf
\* writes to the path whether or not a file is there.
TakeName(a, u, n) ==
    runs' = Append(runs, [archiver |-> a, url |-> u, name |-> n,
                          existed |-> n \in NamesOf(a)])

\* ------------------------------------------- UniversalArchiver.archive_webpage
\* self.base_dir = self.create_directory(url); self.base_url = url
CreateDirectory ==
    /\ pc = "create_directory"
    /\ \/ /\ Ok("create_directory", "new_page")
          /\ TakeName("universal", BaseURL, create_directory(BaseURL, clock))
       \/ /\ Raise("create_directory")
          /\ UNCHANGED runs
    /\ UNCHANGED <<prog, placed, docVars, cssVars, clock, ghostVars, absorbed,
                   handles, pageRefs, loopVars, files, fetchVars, rewriteVars,
                   media_files>>

\* self.page = await self.context.new_page(); self.page.on("dialog", ...)
NewPage ==
    /\ pc = "new_page"
    /\ \/ Ok("new_page", "goto") /\ page' = "open"
       \/ Raise("new_page") /\ UNCHANGED page
    /\ UNCHANGED <<prog, placed, docVars, cssVars, nameVars, ghostVars,
                   absorbed, playwright, browser, session, driver, pageRefs,
                   loopVars, files, fetchVars, rewriteVars, media_files>>

\* await self.page.goto(url, wait_until='networkidle')
Goto ==
    /\ pc = "goto"
    /\ \/ Ok("navigate", IF prog = "universal" THEN "scroll" ELSE "e_process")
       \/ Raise("navigate")
    /\ UNCHANGED <<prog, placed, docVars, cssVars, nameVars, ghostVars,
                   absorbed, handles, pageRefs, loopVars, files, fetchVars,
                   rewriteVars, media_files>>

\* The scroll script of page.evaluate, then asyncio.sleep(3).
Scroll ==
    /\ pc = "scroll"
    /\ \/ Ok("scroll", "pdf")
       \/ Raise("scroll")
    /\ UNCHANGED <<prog, placed, docVars, cssVars, nameVars, ghostVars,
                   absorbed, handles, pageRefs, loopVars, files, fetchVars,
                   rewriteVars, media_files>>

\* Mutant of Pdf: control goes on to the style snapshot, passing over the
\* extraction and the fetches.
PdfThenStyles ==
    /\ pc = "pdf"
    /\ Ok("pdf", "extract_styles")
    /\ files' = Put(files, <<"page.pdf">>, "complete")
    /\ UNCHANGED <<prog, placed, docVars, cssVars, nameVars, ghostVars,
                   absorbed, handles, pageRefs, loopVars, fetchVars,
                   rewriteVars, media_files>>

\* await self.page.pdf(path=str(pdf_path), ...)
Pdf ==
    /\ pc = "pdf"
    /\ \/ /\ Ok("pdf", "extract_media")
          /\ files' = Put(files, <<"page.pdf">>, "complete")
       \/ Raise("pdf") /\ UNCHANGED files
    /\ UNCHANGED <<prog, placed, docVars, cssVars, nameVars, ghostVars,
                   absorbed, handles, pageRefs, loopVars, fetchVars,
                   rewriteVars, media_files>>

\* The sites of the page that refer to a resource: the raw references that
\* extract_media_urls collects, resolves and returns for archive_webpage to
\* fetch.
Sites == {r \in pageRefs : r.kind # "data"}

\* Mutant of IterationOrders: the references are made unique as raw strings
\* and each is resolved when it is fetched.
IterationOrdersNoDedup(raws, base) ==
    {[i \in 1..Len(q) |-> urljoin(base, q[i])] :
        q \in SeqsOf({x \in raws : x.kind # "data"})}

\* The orders in which "for url in media_urls" can visit the set that
\* extract_media_urls returns for the raw references raws.
IterationOrders(raws, base) == SeqsOf(ResolvedUrls(raws, base))

\* media_urls = await self.extract_media_urls(): the resolved set, or set()
\* when a query or evaluate inside raised, whatever the local media_urls held
\* by then.  The for loop then visits the returned set in some order.
ExtractMediaUrls ==
    /\ pc = "extract_media"
    /\ \/ /\ found' = Sites
          /\ media_urls' = ResolvedUrls(pageRefs, BaseURL)
          /\ queue' \in IterationOrders(pageRefs, BaseURL)
          /\ absorbed' = absorbed
       \/ /\ found' \in SUBSET Sites
          /\ media_urls' = {}
          /\ queue' = <<>>
          /\ absorbed' = absorbed \cup {"extract"}
    /\ Ok("extract", "fetch_loop")
    /\ UNCHANGED <<prog, placed, docVars, cssVars, nameVars, sheetFetch,
                   cancelled, handles, pageRefs, files, fetchVars, rewriteVars,
                   media_files>>

\* ------------------------------------------------------- download_resource
\* No call of the fetcher is under way and the locals of the last are gone.
NoCall ==
    /\ cur' = BaseURL
    /\ output_path' = <<>>
    /\ attempt' = 0
    /\ callGets' = 0
    /\ delays' = <<>>
    /\ callState' = "none"

\* Where download_resource returns to.
ReturnPc == IF prog = "fetcher" THEN "idle" ELSE "fetch_loop"

\* Mutant of AlreadyDownloaded: the set is never consulted.
AlreadyDownloadedNever(u) == FALSE

\* if url in self.downloaded_resources: return
AlreadyDownloaded(u) == u \in downloaded_resources

\* The call download_resource(u, path) up to its first await.
Call(u, path) ==
    /\ cur' = u
    /\ output_path' = path
    /\ IF AlreadyDownloaded(u)
       THEN /\ callState' = "skipped"
            /\ pc' = ReturnPc
            /\ UNCHANGED <<attempt, callGets, delays, seqStarted>>
       ELSE /\ callState' = "active"
            /\ attempt' = 0
            /\ callGets' = 0
            /\ delays' = <<>>
            /\ seqStarted' = [seqStarted EXCEPT ![u] = @ + 1]
            /\ pc' = "dr_get"
    /\ UNCHANGED <<downloaded_resources, httpCount, fetchOutcome, refetched>>

\* self.session.get(url, headers=headers) is issued.
Request ==
    /\ httpCount' = [httpCount EXCEPT ![cur] = @ + 1]
    /\ callGets' = callGets + 1
    /\ refetched' = IF fetchOutcome[cur] = "none" THEN refetched
                    ELSE refetched \cup {<<cur, fetchOutcome[cur]>>}

\* An attempt failed (status other than 200, or an exception): sleep and go
\* round the loop again, or fall out of the loop after the last attempt.
AttemptFailed ==
    IF attempt < retries - 1
    THEN /\ delays' = Append(delays, Backoff(attempt))
         /\ attempt' = attempt + 1
         /\ pc' = "dr_get"
         /\ UNCHANGED <<callState, fetchOutcome>>
    ELSE /\ callState' = "failed"
         /\ fetchOutcome' = [fetchOutcome EXCEPT ![cur] = "failed"]
         /\ pc' = ReturnPc
         /\ UNCHANGED <<delays, attempt>>

\* Mutant of GetError: the exception is caught by no handler on the way up.
GetErrorPropagates ==
    /\ pc = "dr_get"
    /\ prog # "fetcher"
    /\ Request
    /\ Raise("fetch")
    /\ UNCHANGED <<prog, placed, docVars, cssVars, nameVars, ghostVars,
                   absorbed, handles, pageRefs, loopVars, files,
                   downloaded_resources, cur, output_path, attempt, delays,
                   callState, calls, seqStarted, fetchOutcome, rewriteVars,
                   media_files>>

\* session.get raises (transport error): except Exception.
GetError ==
    /\ pc = "dr_get"
    /\ Request
    /\ AttemptFailed
    /\ UNCHANGED <<prog, placed, docVars, cssVars, nameVars, ghostVars, error,
                   result, done, absorbed, handles, pageRefs, loopVars, files,
                   downloaded_resources, cur, output_path, calls, seqStarted,
                   rewriteVars, media_files>>

\* response.status != 200: the else branch.
GetStatus ==
    /\ pc = "dr_get"
    /\ Request
    /\ AttemptFailed
    /\ UNCHANGED <<prog, placed, docVars, cssVars, nameVars, ghostVars, error,
                   result, done, absorbed, handles, pageRefs, loopVars, files,
                   downloaded_resources, cur, output_path, calls, seqStarted,
                   rewriteVars, media_files>>

\* response.status == 200: the parent directory is made and the file opened
\* with 'wb', which creates it empty (or truncates what an earlier attempt left).
Get200 ==
    /\ pc = "dr_get"
    /\ Request
    /\ files' = Put(files, output_path, "partial")
    /\ pc' = "dr_stream"
    /\ UNCHANGED <<prog, placed, docVars, cssVars, nameVars, ghostVars, error,
                   result, done, absorbed, handles, pageRefs, loopVars,
                   downloaded_resources, cur, output_path, attempt, delays,
                   callState, calls, seqStarted, fetchOutcome, rewriteVars,
                   media_files>>

\* Every chunk is written; the URL is recorded and the call returns.
StreamOk ==
    /\ pc = "dr_stream"
    /\ files' = Put(files, output_path, "complete")
    /\ downloaded_resources' = downloaded_resources \cup {cur}
    /\ callState' = "ok"
    /\ fetchOutcome' = [fetchOutcome EXCEPT ![cur] = "success"]
    /\ pc' = ReturnPc
    /\ UNCHANGED <<prog, placed, docVars, cssVars, nameVars, ghostVars, error,
                   result, done, absorbed, handles, pageRefs, loopVars, cur,
                   output_path, attempt, callGets, delays, calls, httpCount,
                   seqStarted, refetched, rewriteVars, media_files>>

\* iter_chunked raises part-way: the with block closes the file, which stays
\* on disk as written so far; except Exception.
StreamError ==
    /\ pc = "dr_stream"
    /\ AttemptFailed
    /\ UNCHANGED <<prog, placed, docVars, cssVars, nameVars, ghostVars, error,
                   result, done, absorbed, handles, pageRefs, loopVars, files,
                   downloaded_resources, cur, output_path, callGets, calls,
                   httpCount, seqStarted, refetched, rewriteVars, media_files>>

\* The task that runs archive_webpage is cancelled while it waits inside
\* download_resource (session.get, iter_chunked or asyncio.sleep):
\* asyncio raises CancelledError at that await.  CancelledError derives from
\* BaseException, so neither the except Exception of download_resource, nor
\* that of the loop body, nor that of archive_webpage catches it; the finally
\* block runs and the error leaves archive_webpage.
Cancel ==
    /\ prog = "universal"
    /\ pc \in {"dr_get", "dr_stream"}
    /\ cancelled' = TRUE
    /\ Raise("cancelled")
    /\ UNCHANGED <<prog, placed, docVars, cssVars, nameVars, found, sheetFetch,
                   absorbed, handles, pageRefs, loopVars, files, fetchVars,
                   rewriteVars, media_files>>

\* for url in media_urls: await self.download_resource(url, file_path); after
\* the last URL the loop ends and control reaches "Extract styles".
FetchLoop ==
    /\ pc = "fetch_loop"
    /\ IF queue = <<>>
       THEN /\ Ok("fetch", "extract_styles")
            /\ NoCall
            /\ UNCHANGED <<queue, downloaded_resources, calls, httpCount,
                           seqStarted, fetchOutcome, refetched>>
       ELSE /\ Call(Head(queue), MediaPath(Head(queue)))
            /\ queue' = Tail(queue)
            /\ UNCHANGED <<error, result, done, calls>>
    /\ UNCHANGED <<prog, placed, docVars, cssVars, nameVars, ghostVars,
                   absorbed, handles, pageRefs, media_urls, files, rewriteVars,
                   media_files>>

\* A caller of the set-up archiver calls download_resource with any URL.
DirectCall ==
    /\ prog = "fetcher"
    /\ pc = "idle"
    /\ calls < MaxCalls
    /\ calls' = calls + 1
    /\ \E u \in PageURLs : Call(u, MediaPath(u))
    /\ UNCHANGED <<prog, placed, docVars, cssVars, nameVars, ghostVars, error,
                   result, done, absorbed, handles, pageRefs, loopVars, files,
                   rewriteVars, media_files>>

\* ---------------------------------------------------------- extract_styles
\* `element-${index}` of extract_styles' script and f'element-{i}' of
\* modify_html_content: the marker of the element with index i.
Marker(i) == "element-" \o ToString(i)

\* The keys the script gives the n elements of querySelectorAll('*').
ElementKeys(n) == {Marker(i) : i \in 0..(n - 1)}

\* The elements of the rendered page: the root and one element for each
\* reference the page holds.
PageElements == 1 + Cardinality(pageRefs)

\* What extract_styles can return: the 'stylesheets' list holds hrefs ("http")
\* and inline text ("text"), 'inline_styles' the <style> texts.
RECURSIVE SheetLists(_)
SheetLists(n) ==
    IF n = 0 THEN {<<>>}
    ELSE SheetLists(n - 1) \cup
         {Append(s, k) : s \in {x \in SheetLists(n - 1) : Len(x) = n - 1},
                         k \in {"http", "text"}}

\* css is the text the sheets of the page hold; a page without a sheet has none.
\* computed holds the keys of 'computed_styles', one per element of the page
\* at the time of the snapshot.
StyleSnapshots ==
    {x \in {[state |-> "dict", stylesheets |-> s, inline |-> n, css |-> c,
             computed |-> ElementKeys(PageElements)] :
                s \in SheetLists(MaxSheets), n \in 0..MaxInline, c \in CssTexts} :
        (x.stylesheets = <<>> /\ x.inline = 0) => x.css = <<>>}

\* Mutant of ExtractStyles: the error of page.evaluate is not caught.
ExtractStylesRaises ==
    /\ pc = "extract_styles"
    /\ Raise("styles")
    /\ UNCHANGED <<prog, placed, docVars, cssVars, nameVars, ghostVars,
                   absorbed, handles, pageRefs, loopVars, files, fetchVars,
                   rewriteVars, media_files>>

\* styles = await self.extract_styles(): the snapshot, or None when a
\* page.evaluate raised.
ExtractStyles ==
    /\ pc = "extract_styles"
    /\ \/ /\ styles' \in StyleSnapshots
          /\ absorbed' = absorbed
       \/ /\ styles' = [state |-> "None", stylesheets |-> <<>>, inline |-> 0,
                         css |-> <<>>, computed |-> {}]
          /\ absorbed' = absorbed \cup {"styles"}
    /\ Ok("snapshot", "content")
    /\ UNCHANGED <<prog, placed, docVars, cssVars, nameVars, ghostVars, handles,
                   pageRefs, loopVars, files, fetchVars, mi, modified, links,
                   writeFailed, media_files>>

\* content = await self.page.content()
Content ==
    /\ pc = "content"
    /\ \/ /\ Ok("content", "modify_html")
          /\ elements' = PageElements
       \/ /\ Raise("content")
          /\ UNCHANGED elements
    /\ UNCHANGED <<prog, placed, markers, cssVars, nameVars, ghostVars,
                   absorbed, handles, pageRefs, loopVars, files, fetchVars,
                   rewriteVars, media_files>>

\* --------------------------------------------------- download_css_resources
\* sheet = tinycss2.parse_stylesheet(): the call passes no argument, and the
\* function's first parameter (the text to parse) has no default: TypeError,
\* whatever css_content is.
ParseStylesheetRaises(css) == TRUE

\* download_css_resources(css, base) on an archiver whose font_files and
\* css_files are fonts and bgs: the sets it leaves behind.  The parse call
\* raises before the loop over the rules is entered, except Exception logs,
\* and css_content is returned as it came.  The ELSE branch is that loop: the
\* url() of an @font-face src goes to font_files, that of a background or
\* background-image of a style rule to css_files, both joined with base.
download_css_resources(css, base, fonts, bgs) ==
    IF ParseStylesheetRaises(css)
    THEN [font_files |-> fonts, css_files |-> bgs]
    ELSE [font_files |-> fonts \cup
                ResolvedUrls({css[i].ref : i \in {j \in DOMAIN css :
                                  /\ css[j].type = "font-face"
                                  /\ css[j].name = "src"}}, base),
          css_files |-> bgs \cup
                ResolvedUrls({css[i].ref : i \in {j \in DOMAIN css :
                                  /\ css[j].type = "style"
                                  /\ css[j].name \in {"background", "background-image"}}},
                             base)]

\* The call made from modify_html_content for a sheet with base URL base.
CollectCss(base) ==
    LET r == download_css_resources(styles.css, base, font_files, css_files)
    IN  /\ font_files' = r.font_files
        /\ css_files' = r.css_files

\* ----------------------------------------------------- modify_html_content
ExternalCss(i) == <<"styles", "external_" \o ToString(i) \o ".css">>
InlineCss(i) == <<"styles", "inline_" \o ToString(i) \o ".css">>
ComputedCss == <<"styles", "computed.css">>
IndexHtml == <<"index.html">>

\* except Exception: log and return content, the document as the page gave it.
Fallback ==
    /\ modified' = "content"
    /\ links' = {}
    /\ absorbed' = absorbed \cup {"rewrite"}
    /\ Ok("rewrite", "write_index")

\* Mutant of SetMarkers: every element gets the marker of the first.
SetMarkersStale(n) == [i \in 1..n |-> Marker(0)]

\* for i, element in enumerate(soup.select('*')): element['data-style'] =
\* f'element-{i}', on a soup of n elements: the attribute of each, in
\* document order.
SetMarkers(n) == [i \in 1..n |-> Marker(i - 1)]

\* The soup is built, the markers set and styles/ made; then
\* styles['stylesheets'] is read, which raises TypeError on None.
ModifyBegin ==
    /\ pc = "modify_html"
    /\ \/ \* the first loop is entered
          /\ styles.state = "dict"
          /\ markers' = SetMarkers(elements)
          /\ pc' = "m_external"
          /\ mi' = 0
          /\ UNCHANGED <<error, result, done, absorbed, modified, links>>
       \/ \* styles is None: TypeError
          /\ styles.state = "None"
          /\ markers' = SetMarkers(elements)
          /\ Fallback
          /\ mi' = mi
       \/ \* BeautifulSoup or styles_dir.mkdir raises
          /\ Fallback
          /\ UNCHANGED <<mi, markers>>
    /\ UNCHANGED <<prog, placed, elements, cssVars, nameVars, ghostVars,
                   handles, pageRefs, loopVars, files, fetchVars, styles,
                   writeFailed, media_files>>

\* async with self.session.get(stylesheet): the one request a round of the
\* loop issues for its stylesheet, and how it ended.
SheetRequest(outcome) == sheetFetch' = [gets |-> 1, outcome |-> outcome]

\* One round of "for i, stylesheet in enumerate(styles['stylesheets'])".
ModifyExternal ==
    /\ pc = "m_external"
    /\ IF mi >= Len(styles.stylesheets)
       THEN /\ pc' = "m_inline"
            /\ mi' = 0
            /\ UNCHANGED <<error, result, done, absorbed, modified, links, files,
                           writeFailed, cssVars, sheetFetch>>
       ELSE IF styles.stylesheets[mi + 1] # "http"
       THEN \* not stylesheet.startswith('http'): nothing is done
            /\ mi' = mi + 1
            /\ UNCHANGED <<pc, error, result, done, absorbed, modified, links,
                           files, writeFailed, cssVars, sheetFetch>>
       ELSE \/ \* status 200, the text is written and the link appended
               /\ SheetRequest("ok")
               /\ CollectCss(SheetURL)
               /\ files' = Put(files, ExternalCss(mi), "complete")
               /\ links' = links \cup {ExternalCss(mi)}
               /\ mi' = mi + 1
               /\ UNCHANGED <<pc, error, result, done, absorbed, modified,
                              writeFailed>>
            \/ \* status other than 200: the sheet is passed over
               /\ SheetRequest("status")
               /\ mi' = mi + 1
               /\ UNCHANGED <<pc, error, result, done, absorbed, modified,
                              links, files, writeFailed, cssVars>>
            \/ \* session.get or response.text() raises
               /\ SheetRequest("error")
               /\ Fallback
               /\ UNCHANGED <<mi, files, writeFailed, cssVars>>
            \/ \* status 200, css_path.write_text raises
               /\ SheetRequest("ok")
               /\ CollectCss(SheetURL)
               /\ Fallback
               /\ writeFailed' = writeFailed \cup {ExternalCss(mi)}
               /\ UNCHANGED <<mi, files>>
    /\ UNCHANGED <<prog, placed, docVars, nameVars, found, cancelled, handles,
                   pageRefs, loopVars, fetchVars, styles, media_files>>

\* One round of "for i, style in enumerate(styles['inline_styles'])".
ModifyInline ==
    /\ pc = "m_inline"
    /\ IF mi >= styles.inline
       THEN /\ pc' = "m_computed"
            /\ UNCHANGED <<mi, error, result, done, absorbed, modified, links,
                           files, writeFailed, cssVars>>
       ELSE \/ /\ CollectCss(BaseURL)
               /\ files' = Put(files, InlineCss(mi), "complete")
               /\ links' = links \cup {InlineCss(mi)}
               /\ mi' = mi + 1
               /\ UNCHANGED <<pc, error, result, done, absorbed, modified,
                              writeFailed>>
            \/ \* css_path.write_text raises
               /\ CollectCss(BaseURL)
               /\ Fallback
               /\ writeFailed' = writeFailed \cup {InlineCss(mi)}
               /\ UNCHANGED <<mi, files>>
    /\ UNCHANGED <<prog, placed, docVars, nameVars, ghostVars, handles,
                   pageRefs, loopVars, fetchVars, styles, media_files>>

\* await self.save_computed_styles(...), which logs and swallows its own
\* errors; the link to computed.css is appended and str(soup) returned.
ModifyComputed ==
    /\ pc = "m_computed"
    /\ \/ /\ files' = Put(files, ComputedCss, "complete")
          /\ UNCHANGED <<absorbed, writeFailed>>
       \/ /\ writeFailed' = writeFailed \cup {ComputedCss}
          /\ absorbed' = absorbed \cup {"computed_css"}
          /\ UNCHANGED files
    /\ links' = links \cup {ComputedCss}
    /\ modified' = "soup"
    /\ Ok("rewrite", "write_index")
    /\ UNCHANGED <<prog, placed, docVars, cssVars, nameVars, ghostVars, handles,
                   pageRefs, loopVars, fetchVars, styles, mi, media_files>>

\* save_computed_styles(computed_styles): the selectors of the rules it puts
\* into computed.css, one `[data-style="{element}"]` for each key.
save_computed_styles(keys) == {[attr |-> "data-style", value |-> k] : k \in keys}

\* The selectors of the rules of computed.css as it stands on disk.
ComputedSelectors ==
    IF ComputedCss \in DOMAIN files
    THEN save_computed_styles(styles.computed) ELSE {}

\* ------------------------------------------------ the references of a document
\* A reference to the local copy of u, and the absolute URL u written out.
LocalRef(u) == [kind |-> "local", host |-> "", path |-> MediaPath(u)]
AbsRef(u) == [kind |-> "abs", host |-> u.host, path |-> u.path]

\* What the site holding raw reference r holds in the document that
\* modify_html_content returns.  The soup gets a data-style attribute on every
\* element and link elements in head; no src, srcset or data-src attribute is
\* assigned, and the fallback returns content as page.content() gave it.
DocumentRef(r) == r

\* Mutant of WriteIndex: a failed write is logged and passed over.
WriteIndexSwallows ==
    /\ pc = "write_index"
    /\ \/ /\ files' = Put(files, IndexHtml, "complete")
          /\ UNCHANGED writeFailed
       \/ /\ writeFailed' = writeFailed \cup {IndexHtml}
          /\ UNCHANGED files
    /\ Ok("persist", FinallyEntry)
    /\ UNCHANGED <<prog, placed, docVars, cssVars, nameVars, ghostVars,
                   absorbed, handles, pageRefs, loopVars, fetchVars, styles, mi,
                   modified, links, media_files>>

\* Mutant of WriteIndex: the document is written only when it was rewritten.
WriteIndexOnlyIfRewritten ==
    /\ pc = "write_index"
    /\ \/ /\ files' = IF modified = "soup"
                       THEN Put(files, IndexHtml, "complete") ELSE files
          /\ Ok("persist", FinallyEntry)
          /\ UNCHANGED writeFailed
       \/ /\ writeFailed' = writeFailed \cup {IndexHtml}
          /\ Raise("persist")
          /\ UNCHANGED files
    /\ UNCHANGED <<prog, placed, docVars, cssVars, nameVars, ghostVars,
                   absorbed, handles, pageRefs, loopVars, fetchVars, styles, mi,
                   modified, links, media_files>>

\* html_path.write_text(modified_content, encoding='utf-8'); the try body ends.
WriteIndex ==
    /\ pc = "write_index"
    /\ \/ /\ files' = Put(files, IndexHtml, "complete")
          /\ Ok("persist", FinallyEntry)
          /\ UNCHANGED writeFailed
       \/ /\ writeFailed' = writeFailed \cup {IndexHtml}
          /\ Raise("persist")
          /\ UNCHANGED files
    /\ UNCHANGED <<prog, placed, docVars, cssVars, nameVars, ghostVars,
                   absorbed, handles, pageRefs, loopVars, fetchVars, styles, mi,
                   modified, links, media_files>>

\* ---------------------------------------------------- finally and cleanup
\* if self.page: await self.page.close()
PageClose ==
    /\ pc = "page_close"
    /\ IF page = "open"
       THEN \/ /\ page' = "closed"
               /\ pc' = "cleanup_session"
               /\ UNCHANGED <<error, result, done>>
            \/ \* page.close() raises: cleanup() on the next line is not reached
               /\ Leave("page_close")
               /\ UNCHANGED page
       ELSE /\ pc' = "cleanup_session"
            /\ UNCHANGED <<page, error, result, done>>
    /\ UNCHANGED <<prog, placed, docVars, cssVars, nameVars, ghostVars,
                   absorbed, playwright, browser, session, driver, pageRefs,
                   loopVars, files, fetchVars, rewriteVars, media_files>>

\* cleanup: if self.session: await self.session.close()
CleanupSession ==
    /\ pc = "cleanup_session"
    /\ IF session = "open"
       THEN /\ session' = "closed"
            /\ pc' = "cleanup_browser"
            /\ UNCHANGED <<error, result, done>>
       ELSE /\ pc' = "cleanup_browser"
            /\ UNCHANGED <<session, error, result, done>>
    /\ UNCHANGED <<prog, placed, docVars, cssVars, nameVars, ghostVars,
                   absorbed, playwright, browser, page, driver, pageRefs,
                   loopVars, files, fetchVars, rewriteVars, media_files>>

\* cleanup: if self.browser: await self.browser.close(), which also closes
\* the pages of the browser.
CleanupBrowser ==
    /\ pc = "cleanup_browser"
    /\ IF browser = "open"
       THEN /\ browser' = "closed"
            /\ page' = IF page = "open" THEN "closed" ELSE page
            /\ pc' = "cleanup_playwright"
            /\ UNCHANGED <<error, result, done>>
       ELSE /\ pc' = "cleanup_playwright"
            /\ UNCHANGED <<browser, page, error, result, done>>
    /\ UNCHANGED <<prog, placed, docVars, cssVars, nameVars, ghostVars,
                   absorbed, playwright, session, driver, pageRefs, loopVars,
                   files, fetchVars, rewriteVars, media_files>>

\* cleanup: if self.playwright: await self.playwright.stop().  When setup
\* raised before assigning it the attribute does not exist: AttributeError.
\* Then control leaves archive_webpage.
CleanupPlaywright ==
    /\ pc = "cleanup_playwright"
    /\ IF playwright = "unset"
       THEN /\ Leave("cleanup_attribute_error")
            /\ UNCHANGED playwright
       ELSE /\ playwright' = "closed"
            /\ Leave(error)
    /\ UNCHANGED <<prog, placed, docVars, cssVars, nameVars, ghostVars,
                   absorbed, browser, session, page, driver, pageRefs, loopVars,
                   files, fetchVars, rewriteVars, media_files>>

\* --------------------------------------------- EnhancedArchiver.archive_webpage
\* output_path = self.create_output_path(url); self.base_url = url
E_OutputPath ==
    /\ pc = "e_output_path"
    /\ \/ /\ Ok("create_output_path", "new_page")
          /\ TakeName("enhanced", BaseURL, create_output_path(BaseURL, clock))
       \/ /\ Raise("create_output_path")
          /\ UNCHANGED runs
    /\ UNCHANGED <<prog, placed, docVars, cssVars, clock, ghostVars, absorbed,
                   handles, pageRefs, loopVars, files, fetchVars, rewriteVars,
                   media_files>>

\* wait_for_timeout, cleanup_page, handle_dynamic_content, process_videos:
\* the last two log and swallow the errors inside their try blocks.
E_Process ==
    /\ pc = "e_process"
    /\ \/ Ok("process", "e_pdf") /\ absorbed' = absorbed
       \/ Ok("process", "e_pdf") /\ absorbed' = absorbed \cup {"dynamic_content"}
       \/ Raise("process") /\ absorbed' = absorbed
    /\ UNCHANGED <<prog, placed, docVars, cssVars, nameVars, ghostVars, handles,
                   pageRefs, loopVars, files, fetchVars, rewriteVars,
                   media_files>>

\* await self.page.pdf(path=str(output_path), ...); the try body ends.
E_Pdf ==
    /\ pc = "e_pdf"
    /\ \/ /\ Ok("pdf", FinallyEntry)
          /\ files' = Put(files, <<"book.pdf">>, "complete")
       \/ Raise("pdf") /\ UNCHANGED files
    /\ UNCHANGED <<prog, placed, docVars, cssVars, nameVars, ghostVars,
                   absorbed, handles, pageRefs, loopVars, fetchVars,
                   rewriteVars, media_files>>

\* ------------------------------------------------------------ download_tweet
\* video_urls + img_urls: the src of every video element (None when it has
\* none), then the src of every img whose src contains "media".
RECURSIVE ListsOver(_, _)
ListsOver(S, n) ==
    IF n = 0 THEN {<<>>}
    ELSE ListsOver(S, n - 1) \cup
         {Append(s, x) : s \in {y \in ListsOver(S, n - 1) : Len(y) = n - 1}, x \in S}

MediaLists ==
    {v \o i : v \in ListsOver({TwVideo, TwVideoB, TwNone}, MaxMedia),
              i \in ListsOver({TwImgA, TwImgB}, MaxMedia)}

VideoFile == <<"media", "video_id.mp4">>
ImageFile(n) == <<"media", "image_" \o ToString(n) \o ".jpg">>

\* The directories are made and driver = webdriver.Chrome(...), before try.
TwChrome ==
    /\ pc = "tw_chrome"
    /\ \/ /\ driver' = "open"
          /\ pc' = "tw_load"
          /\ UNCHANGED <<error, result, done>>
       \/ /\ Leave("chrome")
          /\ UNCHANGED driver
    /\ UNCHANGED <<prog, placed, docVars, cssVars, nameVars, ghostVars,
                   absorbed, playwright, browser, session, page, pageRefs,
                   loopVars, files, fetchVars, rewriteVars, media_files>>

\* driver.get(url), the consent click (its errors passed over), page_source
\* and the two find_elements loops.
TwLoad ==
    /\ pc = "tw_load"
    /\ \/ /\ \E q \in {m \in MediaLists : Len(m) <= MaxMedia} : queue' = q
          /\ Ok("navigate", "tw_loop")
       \/ /\ Raise("navigate")
          /\ UNCHANGED queue
    /\ UNCHANGED <<prog, placed, docVars, cssVars, nameVars, ghostVars,
                   absorbed, handles, pageRefs, media_urls, files, fetchVars,
                   rewriteVars, media_files>>

\* One fetch of the loop "for url in video_urls + img_urls" is issued for u
\* with destination path.
TwFetch(u, path, ok) ==
    /\ cur' = u
    /\ output_path' = path
    /\ httpCount' = [httpCount EXCEPT ![u] = @ + 1]
    /\ seqStarted' = [seqStarted EXCEPT ![u] = @ + 1]
    /\ callGets' = 1
    /\ refetched' = IF fetchOutcome[u] = "none" THEN refetched
                    ELSE refetched \cup {<<u, fetchOutcome[u]>>}
    /\ callState' = IF ok THEN "ok" ELSE "failed"
    /\ fetchOutcome' = [fetchOutcome EXCEPT ![u] = IF ok THEN "success" ELSE "failed"]
    /\ UNCHANGED <<downloaded_resources, attempt, delays, calls>>

\* One round of the download loop; after the last the loop ends.
TwLoop ==
    /\ pc = "tw_loop"
    /\ IF queue = <<>>
       THEN /\ Ok("fetch", "tw_index")
            /\ NoCall
            /\ UNCHANGED <<queue, files, media_files, downloaded_resources,
                           calls, httpCount, seqStarted, fetchOutcome, refetched>>
       ELSE LET u == Head(queue) IN
            /\ queue' = Tail(queue)
            /\ UNCHANGED <<pc, error, result, done>>
            /\ IF u = TwNone
               THEN \* if not url: continue
                    UNCHANGED <<files, fetchVars, media_files>>
               ELSE IF u.host = "video.twimg.com"
               THEN \/ \* ydl.download([url]) succeeds
                       /\ TwFetch(u, VideoFile, TRUE)
                       /\ files' = Put(files, VideoFile, "complete")
                       /\ media_files' = Append(media_files, VideoFile)
                    \/ \* it raises: except Exception prints
                       /\ TwFetch(u, VideoFile, FALSE)
                       /\ UNCHANGED <<files, media_files>>
               ELSE LET f == ImageFile(Len(media_files)) IN
                    \/ \* open(..., 'wb'), requests.get(url).content written
                       /\ TwFetch(u, f, TRUE)
                       /\ files' = Put(files, f, "complete")
                       /\ media_files' = Append(media_files, f)
                    \/ \* requests.get raises after open created the file
                       /\ TwFetch(u, f, FALSE)
                       /\ files' = Put(files, f, "partial")
                       /\ UNCHANGED media_files
    /\ UNCHANGED <<prog, placed, docVars, cssVars, nameVars, ghostVars,
                   absorbed, handles, pageRefs, media_urls, rewriteVars>>

\* index.html is written (the article element is looked up for it); the try
\* body ends.
TwIndex ==
    /\ pc = "tw_index"
    /\ \/ /\ files' = Put(files, IndexHtml, "complete")
          /\ Ok("persist", FinallyEntry)
          /\ UNCHANGED writeFailed
       \/ /\ Raise("persist")
          /\ writeFailed' = writeFailed \cup {IndexHtml}
          /\ UNCHANGED files
    /\ UNCHANGED <<prog, placed, docVars, cssVars, nameVars, ghostVars,
                   absorbed, handles, pageRefs, loopVars, fetchVars, styles, mi,
                   modified, links, media_files>>

\* finally: driver.quit(); control leaves download_tweet.
DriverQuit ==
    /\ pc = "driver_quit"
    /\ driver' = "closed"
    /\ Leave(error)
    /\ UNCHANGED <<prog, placed, docVars, cssVars, nameVars, ghostVars,
                   absorbed, playwright, browser, session, page, pageRefs,
                   loopVars, files, fetchVars, rewriteVars, media_files>>

\* ------------------------------------------------- the names of several runs
\* A second of wall-clock time passes between two runs.
Tick ==
    /\ prog = "namer"
    /\ clock < MaxClock
    /\ clock' = clock + 1
    /\ UNCHANGED <<prog, placed, docVars, cssVars, runs, ghostVars, pc, error,
                   result, done, absorbed, handles, pageRefs, loopVars, files,
                   fetchVars, rewriteVars, media_files>>

\* A run of UniversalArchiver for URL u reaches create_directory.
NameDirectory ==
    /\ prog = "namer"
    /\ Len(runs) < MaxRuns
    /\ \E u \in RunURLs : TakeName("universal", u, create_directory(u, clock))
    /\ UNCHANGED <<prog, placed, docVars, cssVars, clock, ghostVars, pc, error,
                   result, done, absorbed, handles, pageRefs, loopVars, files,
                   fetchVars, rewriteVars, media_files>>

\* A run of EnhancedArchiver for URL u reaches create_output_path.
NameOutputPath ==
    /\ prog = "namer"
    /\ Len(runs) < MaxRuns
    /\ \E u \in RunURLs : TakeName("enhanced", u, create_output_path(u, clock))
    /\ UNCHANGED <<prog, placed, docVars, cssVars, clock, ghostVars, pc, error,
                   result, done, absorbed, handles, pageRefs, loopVars, files,
                   fetchVars, rewriteVars, media_files>>

\* ------------------------------------------------- destination paths
\* References as a page can hold them, with their query string and fragment.
PlaceRaws ==
    {[kind |-> "abs", host |-> "ex.com", path |-> <<"img", "a.jpg">>,
      query |-> "", fragment |-> ""],
     [kind |-> "abs", host |-> "ex.com", path |-> <<"img", "a.jpg">>,
      query |-> "v=2", fragment |-> ""],
     [kind |-> "rel", host |-> "", path |-> <<"..", "img", "a.jpg">>,
      query |-> "", fragment |-> "top"],
     [kind |-> "rel", host |-> "", path |-> <<"..", "..", "b.png">>,
      query |-> "", fragment |-> ""],
     [kind |-> "abs", host |-> "ex.com", path |-> <<"..", "..", "b.png">>,
      query |-> "", fragment |-> ""],
     [kind |-> "abs", host |-> "ex.com", path |-> <<"..", "..", "..", "b.png">>,
      query |-> "", fragment |-> ""]}

\* urljoin(base, raw) for a reference with query and fragment, which the
\* resolved URL keeps.
urljoinFull(base, raw) ==
    LET u == urljoin(base, raw)
    IN  [host |-> u.host, path |-> u.path, query |-> raw.query,
         fragment |-> raw.fragment]

\* Where the file system puts a path relative to the archive directory: a ".."
\* segment leaves the directory reached so far; up counts the levels above
\* the archive directory the path ends at.
RECURSIVE ResolvePath(_, _, _)
ResolvePath(todo, up, acc) ==
    IF Len(todo) = 0 THEN [up |-> up, path |-> acc]
    ELSE IF Head(todo) = ".."
         THEN IF Len(acc) = 0
              THEN ResolvePath(Tail(todo), up + 1, acc)
              ELSE ResolvePath(Tail(todo), up, DirOf(acc))
         ELSE ResolvePath(Tail(todo), up, Append(acc, Head(todo)))

\* The file that open(output_path, 'wb') of download_resource creates for
\* URL u: urlparse(u).path leaves out query and fragment, and pathlib joins
\* the segments as they are.
Destination(u) == ResolvePath(MediaPath(u), 0, <<>>)

\* The body of the media loop computes the destination of one more reference.
Place ==
    /\ prog = "placer"
    /\ \E raw \in PlaceRaws :
          LET u == urljoinFull(BaseURL, raw)
          IN  /\ \A p \in placed : p.url # u
              /\ placed' = placed \cup {[url |-> u, dest |-> Destination(u)]}
    /\ UNCHANGED <<prog, cssVars, nameVars, ghostVars, docVars, pc, error,
                   result, done, absorbed, handles, pageRefs, loopVars, files,
                   fetchVars, rewriteVars, media_files>>

\* ------------------------------------------------------------ specification
Next ==
    \/ SetupPlaywright \/ SetupBrowser \/ SetupContext \/ SetupSession
    \/ CreateDirectory \/ NewPage \/ Goto \/ Scroll \/ Pdf
    \/ ExtractMediaUrls \/ FetchLoop \/ DirectCall
    \/ GetError \/ GetStatus \/ Get200 \/ StreamOk \/ StreamError \/ Cancel
    \/ ExtractStyles \/ Content
    \/ ModifyBegin \/ ModifyExternal \/ ModifyInline \/ ModifyComputed
    \/ WriteIndex
    \/ PageClose \/ CleanupSession \/ CleanupBrowser \/ CleanupPlaywright
    \/ E_OutputPath \/ E_Process \/ E_Pdf
    \/ TwChrome \/ TwLoad \/ TwLoop \/ TwIndex \/ DriverQuit
    \/ Tick \/ NameDirectory \/ NameOutputPath \/ Place

Spec == Init /\ [][Next]_vars

\* ------------------------------------------------------------------ claims
\* The behaviours that run download_resource.
UsesDownloadResource == prog \in {"universal", "fetcher"}

\* The pipeline steps of archive_webpage, as far as they are done.
Stages(names) == SelectSeq(done, LAMBDA x : x \in names)

\* Control has left the entry point.
Left == result # "running"

\* C1: a call of download_resource whose every attempt fails issues exactly 3
\* HTTP requests, sleeps before each retry strictly longer than before the
\* previous one, and has returned after the third attempt; no call issues
\* more than 3 requests.
C1_RetryBound ==
    UsesDownloadResource =>
        /\ callGets <= retries
        /\ callState = "failed" =>
              /\ callGets = retries
              /\ Len(delays) = retries - 1
              /\ StrictlyIncreasing(delays)
              /\ pc \notin {"dr_get", "dr_stream"}

\* C1 witness: a call of the pipeline's loop has failed on all its attempts.
C1_Witness ==
    /\ prog = "universal"
    /\ callState = "failed"
    /\ httpCount[cur] = 3

Discovered == ResolvedUrls(pageRefs, BaseURL)

C4_NoPartialFile ==
    (UsesDownloadResource /\ callState = "failed") =>
        output_path \notin DOMAIN files

\* C5: when control has left the entry point, no acquired handle is still open.
C5_AllReleased ==
    Left => /\ session # "open"
            /\ browser # "open"
            /\ playwright # "open"
            /\ driver # "open"

\* C6: a failed fetch is never the error that ends the run; after it control
\* is back in the loop, the loop ends only when every URL has been attempted,
\* and then the run goes on to the style snapshot and the rewriting.
C6_FetchFailureContained ==
    prog \in {"universal", "tweet"} =>
        /\ error # "fetch"
        /\ callState = "failed" => pc \in {"fetch_loop", "tw_loop"}
        /\ "fetch" \in Range(done) =>
              /\ queue = <<>>
              /\ prog = "universal" => \A u \in media_urls : seqStarted[u] >= 1
        /\ (pc \in {"fetch_loop", "dr_get", "dr_stream", "tw_loop"}) => error = "none"

\* C6 witness: the run returned with index.html written from the rewritten
\* document although one URL failed on all its attempts, and another URL was
\* fetched as well.
C6_Witness ==
    /\ prog = "universal"
    /\ result = "returned"
    /\ \E u, v \in media_urls :
          /\ fetchOutcome[u] = "failed"
          /\ httpCount[u] = 3
          /\ v # u
          /\ fetchOutcome[v] = "success"
    /\ modified = "soup"
    /\ IndexHtml \in DOMAIN files

\* The pipeline steps that claim C7 names.
PipelineSteps == {"navigate", "snapshot", "extract", "fetch", "rewrite", "persist"}

CodeSteps == PipelineSteps \cup {"pdf", "content"}

FailSoft == {"extract", "styles", "fetch", "rewrite", "computed_css"}

C9_AnyWriteFailureRaises ==
    (prog = "universal" /\ result = "returned") => writeFailed = {}

\* C9 as amended: a failed write of index.html leaves an error pending and
\* the run does not return; a failed write of a file under styles/ is
\* swallowed by the rewriting and is never the error of the run.
C9_IndexWriteFailureRaises ==
    prog = "universal" =>
        /\ IndexHtml \in writeFailed => (error # "none" /\ result # "returned")
        /\ (writeFailed \ {IndexHtml}) # {} =>
              absorbed \cap {"rewrite", "computed_css"} # {}

\* C9 witness: the write of index.html failed and archive_webpage raised.
C9_Witness ==
    /\ prog = "universal"
    /\ result = "raised"
    /\ IndexHtml \in writeFailed
    /\ error = "persist"

\* C10: a run of archive_webpage that returns has written index.html.
C10_ReturnedHasIndex ==
    (prog = "universal" /\ result = "returned") =>
        /\ IndexHtml \in DOMAIN files
        /\ files[IndexHtml] = "complete"

\* C10 witness: a run returned with index.html although extract_styles gave
\* None, rewriting fell back and there was no resource to fetch.
C10_Witness ==
    /\ prog = "universal"
    /\ result = "returned"
    /\ styles.state = "None"
    /\ modified = "content"
    /\ media_urls = {}
    /\ IndexHtml \in DOMAIN files

\* index.html holds the document archive_webpage wrote.
IndexWritten ==
    /\ prog = "universal"
    /\ IndexHtml \in DOMAIN files

\* C11: in the index.html that was written, every site that refers to a
\* resource whose fetch succeeded holds the local path media/{host}/{urlPath}
\* of its copy, not the reference the page had.
C11_FetchedRefsLocal ==
    IndexWritten =>
        \A r \in Sites :
            fetchOutcome[urljoin(BaseURL, r)] = "success"
                => DocumentRef(r) = LocalRef(urljoin(BaseURL, r))

\* C12: in the index.html that was written, every site that refers to a
\* resource whose fetch failed holds the absolute URL of that resource, and
\* no local media/ path.
C12_FailedRefsAbsolute ==
    IndexWritten =>
        \A r \in Sites :
            fetchOutcome[urljoin(BaseURL, r)] = "failed"
                => DocumentRef(r) = AbsRef(urljoin(BaseURL, r))

\* The text of an inline sheet, resp. of an external sheet, went through
\* download_css_resources and the sheet was written and linked.
InlineProcessed == \E i \in 0..(MaxInline + 1) : InlineCss(i) \in links
ExternalProcessed == \E i \in 0..(MaxSheets + 1) : ExternalCss(i) \in links

\* The url()s the rules of the page's stylesheets hold, resolved against base.
UrlsOfSheet(base) ==
    ResolvedUrls({styles.css[i].ref : i \in DOMAIN styles.css}, base)

\* The resources the processed stylesheets of the run refer to.
StylesheetRefs ==
    (IF InlineProcessed THEN UrlsOfSheet(BaseURL) ELSE {})
        \cup (IF ExternalProcessed THEN UrlsOfSheet(SheetURL) ELSE {})

\* C13: when the run has returned, every reference found on the page and
\* every font or background URL of a stylesheet that was processed (or that
\* stands in font_files or css_files) has been submitted to download_resource
\* at least once.
C13_EveryRefSubmitted ==
    (prog = "universal" /\ result = "returned") =>
        \A u \in media_urls \cup font_files \cup css_files \cup StylesheetRefs :
            seqStarted[u] > 0

\* Two runs of the same archiver, the second after the first.
RunPairs ==
    {p \in (DOMAIN runs) \X (DOMAIN runs) :
        p[1] < p[2] /\ runs[p[1]].archiver = runs[p[2]].archiver}

\* C14: two runs of an archiver for the same URL have different output names,
\* which differ in the timestamp only, and the later run does not take a name
\* that an earlier run has made, whatever the clock showed at the two runs.
C14_SameUrlNewDirectory ==
    \A p \in RunPairs :
        runs[p[1]].url = runs[p[2]].url =>
            /\ runs[p[1]].name # runs[p[2]].name
            /\ [runs[p[1]].name EXCEPT !.timestamp = ""]
                   = [runs[p[2]].name EXCEPT !.timestamp = ""]
            /\ ~runs[p[2]].existed

\* C15: two runs of an archiver for different URLs have different output
\* names, also when the URLs share a domain and the clock shows the same
\* second at both runs.
C15_DistinctUrlsDistinctNames ==
    \A p \in RunPairs :
        runs[p[1]].url # runs[p[2]].url => runs[p[1]].name # runs[p[2]].name

\* C16: extract_media_urls does not raise, and what it returns holds the
\* resolved URL of every reference it had collected when it ended, also when
\* it ended on an internal error.
C16_PartialResultKept ==
    prog = "universal" =>
        /\ error # "extract"
        /\ ResolvedUrls(found, BaseURL) \subseteq media_urls

\* C17: once the text `@font-face { src: url(a.woff) } .x { background:
\* url(b.png) }` of an inline sheet (base URL: the page's) has gone through
\* download_css_resources, font_files is exactly the resolved a.woff and
\* css_files exactly the resolved b.png.
C17_FontAndBackgroundRecorded ==
    (InlineProcessed /\ ~ExternalProcessed
        /\ styles.css = <<FontFaceRule, StyleRule>>) =>
        /\ font_files = {urljoin(BaseURL, RawFont)}
        /\ css_files = {urljoin(BaseURL, RawBg)}

\* C18: once a stylesheet with a rule that cannot be processed between two
\* good rules has gone through download_css_resources, the resources of the
\* rule before it and of the rule after it are recorded.
C18_OtherRulesStillExtracted ==
    (InlineProcessed /\ styles.css = <<FontFaceRule, BadRule, StyleRule>>) =>
        /\ urljoin(BaseURL, RawFont) \in font_files
        /\ urljoin(BaseURL, RawBg) \in css_files

\* C19: a stylesheet fetch of modify_html_content that ended without the
\* text (a status other than 200, or an error of the transport) was given up
\* only after 3 requests.
C19_StylesheetFetchRetried ==
    sheetFetch.outcome \in {"status", "error"} => sheetFetch.gets = retries

\* Control is in the fetch phase of archive_webpage.
InFetchPhase == pc \in {"fetch_loop", "dr_get", "dr_stream"}

\* C20, first half: after the cancellation control is not in the fetch phase
\* again, so no fetch is begun or continued.
C20_NoFetchAfterCancel == cancelled => ~InFetchPhase

\* C20: after a cancellation during the fetch phase no further fetch is begun,
\* and when control has left archive_webpage the rewriting step has run on
\* the outcomes recorded so far and index.html has been written.
C20_CancelledRunDegrades ==
    /\ C20_NoFetchAfterCancel
    /\ (cancelled /\ Left) => (modified # "unset" /\ IndexWritten)

\* C21: after modify_html_content has returned the rewritten document, every
\* element the document had carries one data-style marker, the i-th element
\* in document order carries element-(i-1), so no two elements share a marker,
\* and every rule of computed.css selects data-style = element-i for a key
\* element-i of the computed-style snapshot.
C21_MarkersAndRules ==
    (prog = "universal" /\ modified = "soup") =>
        /\ Len(markers) = elements
        /\ \A i \in 1..Len(markers) : markers[i] = Marker(i - 1)
        /\ \A i, j \in 1..Len(markers) : i # j => markers[i] # markers[j]
        /\ \A r \in ComputedSelectors :
              /\ r.attr = "data-style"
              /\ r.value \in styles.computed
              /\ \E i \in 0..Cardinality(styles.computed) : r.value = Marker(i)

\* C21 witness: a document of three elements or more was rewritten and
\* computed.css was written with its rules.
C21_Witness ==
    /\ prog = "universal"
    /\ modified = "soup"
    /\ elements >= 3
    /\ Len(markers) = elements
    /\ Cardinality(ComputedSelectors) >= 3

\* The fetch of an external stylesheet failed, or writing its file did.
ExternalSheetFailed ==
    \/ sheetFetch.outcome \in {"status", "error"}
    \/ \E i \in 0..MaxSheets : ExternalCss(i) \in writeFailed

\* The entry points that end with the cleanup of the handles.
HasCleanup == prog \in {"universal", "enhanced"}

\* C23: once a step of archive_webpage has failed, the error on its way to
\* the caller stays the error of that step: no step of the finally block
\* (page.close, cleanup) puts an error of its own in its place, wherever
\* setup had got to.
C23_StepErrorPropagates ==
    [][(HasCleanup /\ error # "none") => error' = error]_vars

\* C22: when one external stylesheet could not be fetched or written, the
\* rewriting still returns the rewritten document: the element markers are
\* kept, computed.css and every inline sheet of the snapshot are linked, and
\* the files that were linked are on disk.
C22_OtherSheetsSurvive ==
    (prog = "universal" /\ ExternalSheetFailed /\ modified # "unset") =>
        /\ modified = "soup"
        /\ ComputedCss \in links
        /\ \A i \in 0..(styles.inline - 1) : InlineCss(i) \in links

\* C24: every stylesheet link of the document that modify_html_content
\* returned names a file that was written into styles/.
C24_LinksHaveFiles ==
    (prog = "universal" /\ modified # "unset") =>
        \A l \in links : l \in DOMAIN files

\* C25: every destination computed for a resolved URL is a file below
\* media/{host}/ of the archive directory.
C25_DestinationInMediaTree ==
    \A p \in placed :
        /\ p.dest.up = 0
        /\ Len(p.dest.path) > 2
        /\ SubSeq(p.dest.path, 1, 2) = <<"media", p.url.host>>

\* C26: two distinct resolved URLs of a run have distinct destinations.
C26_DistinctUrlsDistinctFiles ==
    \A p, q \in placed : p.url # q.url => p.dest # q.dest

\* C27: the media files recorded by the tweet archiver are pairwise distinct
\* names, so no stored download has overwritten another.
C27_DistinctMediaNames ==
    prog = "tweet" =>
        \A i, j \in 1..Len(media_files) : i # j => media_files[i] # media_files[j]

====
